---- MODULE Spec2Model ----
(***************************************************************************)
(* easy-deploy: the deploy pipeline behind POST /deploy.                   *)
(*                                                                         *)
(* handleDeploy decodes the request, parses the URL and calls              *)
(* CloneAndBuild, which creates a workspace, runs git and docker as        *)
(* external commands one after the other, and removes the workspace when   *)
(* it returns.  Every external command is one step of the model; what the  *)
(* command does to the host (the scratch directory, the container runtime, *)
(* the bound TCP ports) is part of that step.                              *)
(*                                                                         *)
(* A Go string is a sequence of one-character strings, so that             *)
(* strings.TrimSpace, strings.Split, strconv.Atoi, fmt.Sprintf and         *)
(* url.Parse are computed on the text the code hands them.                 *)
(***************************************************************************)
EXTENDS Integers, Sequences, FiniteSets, TLC

\* ------------------------------------------------------------------ bounds

\* Number of request slots served by the HTTP server.
MaxRequests == 2
\* Number of ports of the allocator's range the model keeps (the range of
\* the code, 3000..65535, is cut to BasePort..BasePort+NumPorts-1).
NumPorts == 3
\* Number of scratch directory names os.MkdirTemp can draw.
MaxDirs == 2
\* Number of containers `docker run` can start in one behaviour.
MaxLaunches == 2

\* findFreePort's first port.
BasePort == 3000
\* The container port every launch publishes ("%d:80").
ContainerPort == 80

Requests == 1..MaxRequests
LastPort == BasePort + NumPorts - 1
PortRange == BasePort..LastPort
Dirs == 1..MaxDirs

\* ----------------------------------------------------------------- strings

Digits == <<"0", "1", "2", "3", "4", "5", "6", "7", "8", "9">>

IsDigit(c) == \E i \in 1..10 : Digits[i] = c

DigitVal(c) == (CHOOSE i \in 1..10 : Digits[i] = c) - 1

IsSpace(c) == c \in {" ", "\n", "\t", "\r"}

RECURSIVE Itoa(_)
\* strconv.Itoa / the %d verb for a number >= 0.
Itoa(n) == IF n < 10 THEN <<Digits[n + 1]>>
           ELSE Itoa(n \div 10) \o <<Digits[(n % 10) + 1]>>

RECURSIVE DigitsValue(_)
DigitsValue(s) == IF s = <<>> THEN 0
                  ELSE 10 * DigitsValue(SubSeq(s, 1, Len(s) - 1)) + DigitVal(s[Len(s)])

\* strconv.Atoi on unsigned text: an error unless s is a non-empty run of digits.
Atoi(s) == IF s # <<>> /\ \A i \in 1..Len(s) : IsDigit(s[i])
           THEN [n |-> DigitsValue(s), err |-> FALSE]
           ELSE [n |-> 0, err |-> TRUE]

RECURSIVE TrimLeft(_)
TrimLeft(s) == IF s # <<>> /\ IsSpace(s[1]) THEN TrimLeft(Tail(s)) ELSE s

RECURSIVE TrimRight(_)
TrimRight(s) == IF s # <<>> /\ IsSpace(s[Len(s)])
                THEN TrimRight(SubSeq(s, 1, Len(s) - 1)) ELSE s

\* strings.TrimSpace / bytes.TrimSpace.
TrimSpace(s) == TrimRight(TrimLeft(s))

\* strings.Index for a one-character separator: 0 when absent.
Index(s, c) == IF \E i \in 1..Len(s) : s[i] = c
               THEN CHOOSE i \in 1..Len(s) : s[i] = c /\ \A j \in 1..(i - 1) : s[j] # c
               ELSE 0

LastIndex(s, c) == IF \E i \in 1..Len(s) : s[i] = c
                   THEN CHOOSE i \in 1..Len(s) : s[i] = c /\ \A j \in (i + 1)..Len(s) : s[j] # c
                   ELSE 0

RECURSIVE Split(_, _)
\* strings.Split for a one-character separator.
Split(s, c) == LET i == Index(s, c)
               IN IF i = 0 THEN <<s>>
                  ELSE <<SubSeq(s, 1, i - 1)>> \o Split(SubSeq(s, i + 1, Len(s)), c)

HasPrefix(s, p) == Len(s) >= Len(p) /\ SubSeq(s, 1, Len(p)) = p

\* Str("...") spelled out: the text of a Go string literal, one character each.
Colon == <<":">>
Newline == <<"\n">>

\* ------------------------------------------------------------ net/url.Parse

Letters == {"a", "b", "c", "d", "e", "f", "g", "h", "i", "j", "k", "l", "m",
            "n", "o", "p", "q", "r", "s", "t", "u", "v", "w", "x", "y", "z"}

IsLetter(c) == c \in Letters

IsHex(c) == IsDigit(c) \/ c \in {"a", "b", "c", "d", "e", "f"}

\* stringContainsCTLByte: a byte below ' ' (0x7f is not drawn by the model).
IsCTL(c) == c \in {"\n", "\t", "\r"}

RECURSIVE getScheme(_, _)
\* getScheme(rawURL) scanning from position i: the scheme ends at the first ':',
\* and any character no scheme may hold means there is no scheme.
getScheme(rawURL, i) ==
    IF i > Len(rawURL) THEN [scheme |-> <<>>, rest |-> rawURL, err |-> FALSE]
    ELSE LET c == rawURL[i]
         IN IF IsLetter(c) THEN getScheme(rawURL, i + 1)
            ELSE IF IsDigit(c) \/ c \in {"+", "-", "."}
                 THEN IF i = 1 THEN [scheme |-> <<>>, rest |-> rawURL, err |-> FALSE]
                      ELSE getScheme(rawURL, i + 1)
            ELSE IF c = ":"
                 THEN IF i = 1 THEN [scheme |-> <<>>, rest |-> <<>>, err |-> TRUE]
                      ELSE [scheme |-> SubSeq(rawURL, 1, i - 1),
                            rest |-> SubSeq(rawURL, i + 1, Len(rawURL)), err |-> FALSE]
            ELSE [scheme |-> <<>>, rest |-> rawURL, err |-> FALSE]

\* strings.Cut(s, c): the text before and after the first c.
CutBefore(s, c) == IF Index(s, c) = 0 THEN s ELSE SubSeq(s, 1, Index(s, c) - 1)

CutFrom(s, c) == IF Index(s, c) = 0 THEN <<>> ELSE SubSeq(s, Index(s, c), Len(s))

\* parseHost for a host that is no IP literal: the characters a host may hold
\* unescaped (unescape in encodeHost mode rejects the others).
HostCharOK(c) == IsLetter(c) \/ IsDigit(c) \/ c \in {"-", "_", ".", "~", ":"}

\* validOptionalPort: nothing, or ':' and digits only.
ValidOptionalPort(p) == p = <<>> \/ (p[1] = ":" /\ \A i \in 2..Len(p) : IsDigit(p[i]))

\* parseAuthority without userinfo: the host, or an error.
parseAuthority(authority) ==
    LET i == LastIndex(authority, "@")
        host == SubSeq(authority, i + 1, Len(authority))
        colon == LastIndex(host, ":")
        portPart == IF colon = 0 THEN <<>> ELSE SubSeq(host, colon, Len(host))
    IN [host |-> host,
        err |-> ~(\A k \in 1..Len(host) : HostCharOK(host[k])) \/ ~ValidOptionalPort(portPart)]

\* unescape(path, encodePath) fails on a '%' that two hex digits do not follow.
BadEscape(s) == \E i \in 1..Len(s) :
                    s[i] = "%" /\ ~(i + 2 <= Len(s) /\ IsHex(s[i + 1]) /\ IsHex(s[i + 2]))

NoURL == [err |-> TRUE, Scheme |-> <<>>, Host |-> <<>>, Path |-> <<>>, Opaque |-> <<>>]

\* url.Parse(rawURL) for text without '#', '?' and valid %-escapes: the error, or
\* the URL's Scheme, Host, Path and Opaque.
Parse(rawURL) ==
    IF \E i \in 1..Len(rawURL) : IsCTL(rawURL[i]) THEN NoURL
    ELSE IF rawURL = <<"*">>
         THEN [NoURL EXCEPT !.err = FALSE, !.Path = rawURL]
    ELSE LET g == getScheme(rawURL, 1)
             rest == g.rest
             slash == HasPrefix(rest, <<"/">>)
         IN IF g.err THEN NoURL
            ELSE IF ~slash /\ g.scheme # <<>>
                 THEN [NoURL EXCEPT !.err = FALSE, !.Scheme = g.scheme, !.Opaque = rest]
            ELSE IF ~slash /\ Index(CutBefore(rest, "/"), ":") # 0 THEN NoURL
            ELSE IF HasPrefix(rest, <<"/", "/">>)
                    /\ (g.scheme # <<>> \/ ~HasPrefix(rest, <<"/", "/", "/">>))
                 THEN LET authority == CutBefore(SubSeq(rest, 3, Len(rest)), "/")
                          path == CutFrom(SubSeq(rest, 3, Len(rest)), "/")
                          a == parseAuthority(authority)
                      IN IF a.err \/ BadEscape(path) THEN NoURL
                         ELSE [err |-> FALSE, Scheme |-> g.scheme, Host |-> a.host,
                               Path |-> path, Opaque |-> <<>>]
            ELSE IF BadEscape(rest) THEN NoURL
            ELSE [err |-> FALSE, Scheme |-> g.scheme, Host |-> <<>>,
                  Path |-> rest, Opaque |-> <<>>]

RECURSIVE EscapePath(_)
\* escape(path, encodePath) for the characters drawn here: a space becomes %20.
EscapePath(s) == IF s = <<>> THEN <<>>
                 ELSE (IF s[1] = " " THEN <<"%", "2", "0">> ELSE <<s[1]>>) \o EscapePath(Tail(s))

\* (*URL).String() for a URL without userinfo, query and fragment.
String(u) ==
    LET scheme == IF u.Scheme # <<>> THEN u.Scheme \o Colon ELSE <<>>
        path == EscapePath(u.Path)
    IN IF u.Opaque # <<>> THEN scheme \o u.Opaque
       ELSE scheme
            \o (IF (u.Scheme # <<>> \/ u.Host # <<>>) /\ (u.Host # <<>> \/ u.Path # <<>>)
                THEN <<"/", "/">> \o u.Host ELSE <<>>)
            \o (IF path # <<>> /\ path[1] # "/" /\ u.Host # <<>> THEN <<"/">> ELSE <<>>)
            \o path

\* ------------------------------------------------------------ request bodies

\* The repository URLs requests carry.
UrlA == <<"h", "t", "t", "p", ":", "/", "/", "h", "/", "a">>
UrlNotAUrl == <<"n", "o", "t", " ", "a", " ", "u", "r", "l">>
UrlBadHost == <<"h", "t", "t", "p", ":", "/", "/", "h", " ", "h", "/", "a">>
UrlNoScheme == <<":", "a">>

\* A request body: text that is no JSON value of the payload's type, or an object
\* with the "url" member (an object without it decodes to the empty URL).
BadJSON == [json |-> FALSE, url |-> <<>>]
Body(u) == [json |-> TRUE, url |-> u]
Bodies == {BadJSON, Body(<<>>), Body(UrlA), Body(UrlNotAUrl), Body(UrlBadHost),
           Body(UrlNoScheme)}

\* json.NewDecoder(r.Body).Decode(&payload).
Decode(body) == [err |-> ~body.json, URL |-> IF body.json THEN body.url ELSE <<>>]

\* ------------------------------------------------ the host: docker and TCP

\* Short revision identifiers `git rev-parse --short HEAD` can print.
Revs == {<<"a", "1">>, <<"b", "2">>}

\* A container's identifier as docker prints it.
IdText(n) == <<"c">> \o Itoa(n)

\* How a published port is bound on the host: IPv4 only, IPv4 and IPv6, or not
\* at all (a container started without -p).
V4 == <<"0", ".", "0", ".", "0", ".", "0">>
V6 == <<"[", ":", ":", "]">>
Shapes == {<<>>, <<V4>>, <<V4, V6>>}

\* Image names of containers that run before the first request: the project
\* UrlA deploys, and another project.
NameA == <<"h", "/", "a">>
NameB == <<"h", "/", "b">>
Rev0 == <<"f", "0">>

\* fmt.Sprintf("%s:%s", imageName, imageTag).
ImageFullName(imageName, imageTag) == imageName \o Colon \o imageTag

\* The repository part of an image reference: the text before its tag.
Repository(image) == IF LastIndex(image, ":") = 0 THEN image
                     ELSE SubSeq(image, 1, LastIndex(image, ":") - 1)

\* What `docker build -t` accepts as a repository name.
ValidRepository(name) ==
    /\ name # <<>>
    /\ IsLetter(name[1]) \/ IsDigit(name[1])
    /\ \A i \in 1..Len(name) :
           IsLetter(name[i]) \/ IsDigit(name[i]) \/ name[i] \in {".", "/", "-", "_"}

\* Host ports bound for a set of containers.
ContainerPorts(cs) == {c.hport : c \in {x \in cs : x.ips # <<>>}}

RECURSIVE SortedIds(_)
\* The identifiers of a set of containers, newest first, as `docker ps` lists them.
SortedIds(cs) == IF cs = {} THEN <<>>
                 ELSE LET newest == CHOOSE c \in cs : \A d \in cs : d.id <= c.id
                      IN <<IdText(newest.id)>> \o SortedIds(cs \ {newest})

RECURSIVE Lines(_)
\* Text lines, each ended by a newline.
Lines(ls) == IF ls = <<>> THEN <<>> ELSE ls[1] \o Newline \o Lines(Tail(ls))

\* Output of `docker ps -q --filter ancestor=<imageName>`: the running containers
\* started from an image of that name.
PsOutput(cs, imageName) == Lines(SortedIds({c \in cs : Repository(c.image) = imageName}))

\* Output of `docker port <id>` for a container: one line per host binding.
PortOutput(c) ==
    Lines([i \in 1..Len(c.ips) |->
              Itoa(ContainerPort) \o <<"/", "t", "c", "p", " ", "-", ">", " ">>
              \o c.ips[i] \o Colon \o Itoa(c.hport)])

\* The containers a command's identifier argument names.
Named(cs, idArg) == {c \in cs : IdText(c.id) = idArg}

\* ----------------------------------------------------------- findFreePort

NoFreePorts == "no free ports found"

\* The listener left open.
CloseForgotten(open, p) == open

\* listener.Close(): the listener on p is no longer open.
Close(open, p) == open \ {p}

RECURSIVE Scan(_, _)
\* The loop of findFreePort from `p` on, with `bound` the ports net.Listen cannot
\* bind: the first port it can bind is closed again and returned.
Scan(p, bound) ==
    IF p > LastPort THEN [port |-> 0, err |-> NoFreePorts, open |-> {}]
    ELSE IF p \notin bound THEN [port |-> p, err |-> "", open |-> Close({p}, p)]
    ELSE Scan(p + 1, bound)

\* The scan started one port late.
findFreePortOffByOne(bound) == Scan(BasePort + 1, bound)

findFreePort(bound) == Scan(BasePort, bound)

\* -------------------------------------------------------------- the state

VARIABLES
    pc,                    \* where each request's handler stands
    request,               \* the body of the request being served
    repoURL,               \* handleDeploy's parsedURL, CloneAndBuild's repoURL
    tempDir,               \* CloneAndBuild's workspace (0: none)
    lastCommitShortHash,
    imageFullName,
    containerID,
    port,
    ret,                   \* what CloneAndBuild returned ("" is nil)
    resp,                  \* the responses written to the request's ResponseWriter
    cmds,                  \* the external steps CloneAndBuild took for the request
    alloc,                 \* findFreePort's last call: the ports bound, the result
    workspaces,            \* the scratch directories: existence and contents
    containers,            \* the running containers
    images,                \* the images docker build tagged, and what each was built from
    listeners,             \* ports other processes listen on
    held,                  \* listeners this process holds open
    launched,              \* containers started so far
    prior,                 \* the containers that ran when the request arrived
    server                 \* main: "serving", "shutdown" (in server.Shutdown), "stopped"

vars == <<pc, request, repoURL, tempDir, lastCommitShortHash, imageFullName, containerID, port,
          ret, resp, cmds, alloc, workspaces, containers, images, listeners, held,
          launched, prior, server>>

locals == <<repoURL, tempDir, lastCommitShortHash, imageFullName, containerID, port>>

host == <<containers, images, listeners, launched>>

\* Identifier numbers of the containers that run before the first request, and
\* of the first container this program starts.
InitIds == {1, 2}
FirstLaunchId == Cardinality(InitIds) + 1

NoDir == [exists |-> FALSE, dockerfile |-> FALSE, head |-> <<>>]
NoAlloc == [bound |-> {}, port |-> 0, err |-> ""]

\* Error values of CloneAndBuild (the wrapped cause and tool output left out).
ErrTempDir == "failed to create temp dir"
ErrClone == "failed to clone repository"
ErrDockerfile == "dockerfile not found in repository"
ErrRevParse == "failed to get last commit hash"
ErrBuild == "failed to build Docker image"
ErrPs == "failed to check if container is running"
ErrPort == "failed to get container port"
ErrParsePort == "failed to parse container port"
ErrRm == "failed to remove container"
ErrFreePort == "failed to find free port"
ErrRun == "failed to run Docker container"
\* Not an error value: the run ended in a runtime panic (index out of range).
Panic == "panic"

\* Ports no new listener can bind.
Bound == listeners \cup held \cup ContainerPorts(containers)

\* Containers that run before the first request: at most two, started by others,
\* the first of project A with any binding shape, the second of A or B.
InitContainers ==
    LET first == {{}} \cup {{[id |-> 1, image |-> ImageFullName(NameA, Rev0), ips |-> sh,
                              hport |-> IF sh = <<>> THEN 0 ELSE BasePort]} : sh \in Shapes}
        second == {{}} \cup {{[id |-> 2, image |-> ImageFullName(n, Rev0), ips |-> <<V4>>,
                               hport |-> BasePort + 1]} : n \in {NameA, NameB}}
    IN {a \cup b : a \in first, b \in second}

Init ==
    /\ pc = [r \in Requests |-> "idle"]
    /\ request = [r \in Requests |-> BadJSON]
    /\ repoURL = [r \in Requests |-> NoURL]
    /\ tempDir = [r \in Requests |-> 0]
    /\ lastCommitShortHash = [r \in Requests |-> <<>>]
    /\ imageFullName = [r \in Requests |-> <<>>]
    /\ containerID = [r \in Requests |-> <<>>]
    /\ port = [r \in Requests |-> 0]
    /\ ret = [r \in Requests |-> ""]
    /\ resp = [r \in Requests |-> <<>>]
    /\ cmds = [r \in Requests |-> <<>>]
    /\ alloc = [r \in Requests |-> NoAlloc]
    /\ workspaces = [d \in Dirs |-> NoDir]
    /\ containers \in InitContainers
    /\ listeners \in SUBSET (PortRange \ ContainerPorts(containers))
    /\ held = {}
    /\ launched = 0
    /\ images = {}
    /\ prior = [r \in Requests |-> {}]
    /\ server = "serving"

\* One step of a request's trace: the operation, its text argument, the
\* workspace and port it was given, and whether it succeeded.
Step(op, str, dir, p, ok) == [op |-> op, str |-> str, dir |-> dir, port |-> p, ok |-> ok]

Did(r, st) == cmds' = [cmds EXCEPT ![r] = Append(@, st)]

\* The cleanup left out.
RemoveAllForgotten(ws, dir) == ws

\* os.RemoveAll(dir).
RemoveAll(ws, dir) == [d \in Dirs |-> IF d = dir THEN NoDir ELSE ws[d]]

\* The bodies handleDeploy writes (http.Error ends its message with a newline).
MsgInvalidPayload ==
    <<"I", "n", "v", "a", "l", "i", "d", " ", "r", "e", "q", "u", "e", "s", "t", " ",
      "p", "a", "y", "l", "o", "a", "d", "\n">>

MsgInvalidURL ==
    <<"I", "n", "v", "a", "l", "i", "d", " ", "U", "R", "L", "\n">>

MsgInternalError ==
    <<"I", "n", "t", "e", "r", "n", "a", "l", " ", "s", "e", "r", "v", "e", "r", " ",
      "e", "r", "r", "o", "r", "\n">>

MsgProcessed ==
    <<"R", "e", "p", "o", "s", "i", "t", "o", "r", "y", " ", "s", "u", "c", "c", "e",
      "s", "s", "f", "u", "l", "l", "y", " ", "p", "r", "o", "c", "e", "s", "s", "e",
      "d">>

StatusOK == 200
StatusBadRequest == 400
StatusInternalServerError == 500

\* http.Error(w, msg, code), and w.WriteHeader(code) followed by w.Write(msg).
Reply(code, msg) == [status |-> code, body |-> msg]

\* --------------------------------------------------------------- handlers

Idle(r) == pc[r] \in {"idle", "done"}

\* imageName := repoURL.Host + repoURL.Path
ImageName(u) == u.Host \o u.Path

\* A failed stage tried again instead of returned from.
ReturnOrRetry(r, e) ==
    /\ pc' = [pc EXCEPT ![r] = IF e = "" THEN "returned" ELSE @]
    /\ ret' = [ret EXCEPT ![r] = ""]
    /\ workspaces' = IF e = "" THEN RemoveAll(workspaces, tempDir[r]) ELSE workspaces

\* CloneAndBuild returns e: the deferred os.RemoveAll(tempDir) runs first.
Return(r, e) ==
    /\ pc' = [pc EXCEPT ![r] = "returned"]
    /\ ret' = [ret EXCEPT ![r] = e]
    /\ workspaces' = RemoveAll(workspaces, tempDir[r])

\* handleDeploy up to the call of CloneAndBuild: decode the body, parse the URL.
Accept(r, body) ==
    LET payload == Decode(body)
        parsedURL == Parse(payload.URL)
        rejected == payload.err \/ parsedURL.err
    IN /\ request' = [request EXCEPT ![r] = body]
       /\ cmds' = [cmds EXCEPT ![r] = <<>>]
       /\ ret' = [ret EXCEPT ![r] = ""]
       /\ alloc' = [alloc EXCEPT ![r] = NoAlloc]
       /\ tempDir' = [tempDir EXCEPT ![r] = 0]
       /\ lastCommitShortHash' = [lastCommitShortHash EXCEPT ![r] = <<>>]
       /\ imageFullName' = [imageFullName EXCEPT ![r] = <<>>]
       /\ containerID' = [containerID EXCEPT ![r] = <<>>]
       /\ port' = [port EXCEPT ![r] = 0]
       /\ repoURL' = [repoURL EXCEPT ![r] = IF rejected THEN NoURL ELSE parsedURL]
       /\ resp' = [resp EXCEPT ![r] =
                      IF payload.err THEN <<Reply(StatusBadRequest, MsgInvalidPayload)>>
                      ELSE IF parsedURL.err THEN <<Reply(StatusBadRequest, MsgInvalidURL)>>
                      ELSE <<>>]
       /\ pc' = [pc EXCEPT ![r] = IF rejected THEN "done" ELSE "mkdir"]
       /\ prior' = [prior EXCEPT ![r] = containers]
       /\ UNCHANGED <<workspaces, held, host, server>>

\* A request arrives while no other is being served; it is served in the first
\* slot (the slots are interchangeable).
HandleDeploy(r) ==
    /\ server = "serving"
    /\ \A q \in Requests : Idle(q)
    /\ r = 1
    /\ \E body \in Bodies : Accept(r, body)

\* The workspace under one fixed name, made if it is not there.
MkdirTempFixed(r) ==
    /\ pc[r] = "mkdir"
    /\ \/ /\ Did(r, Step("os.MkdirTemp", <<>>, 0, 0, FALSE))
          /\ pc' = [pc EXCEPT ![r] = "returned"]
          /\ ret' = [ret EXCEPT ![r] = ErrTempDir]
          /\ UNCHANGED <<tempDir, workspaces>>
       \/ LET d == CHOOSE x \in Dirs : \A y \in Dirs : x <= y
          IN /\ Did(r, Step("os.MkdirTemp", <<>>, d, 0, TRUE))
             /\ tempDir' = [tempDir EXCEPT ![r] = d]
             /\ workspaces' = [workspaces EXCEPT ![d].exists = TRUE]
             /\ pc' = [pc EXCEPT ![r] = "clone"]
             /\ UNCHANGED ret
    /\ UNCHANGED <<request, repoURL, lastCommitShortHash, imageFullName, containerID,
                   port, resp, alloc, held, host, prior, server>>

\* tempDir, err := os.MkdirTemp("", "repo-*"); defer os.RemoveAll(tempDir)
MkdirTemp(r) ==
    /\ pc[r] = "mkdir"
    /\ \/ /\ Did(r, Step("os.MkdirTemp", <<>>, 0, 0, FALSE))
          /\ pc' = [pc EXCEPT ![r] = "returned"]
          /\ ret' = [ret EXCEPT ![r] = ErrTempDir]
          /\ UNCHANGED <<tempDir, workspaces>>
       \/ \E d \in {x \in Dirs : ~workspaces[x].exists} :
          /\ Did(r, Step("os.MkdirTemp", <<>>, d, 0, TRUE))
          /\ tempDir' = [tempDir EXCEPT ![r] = d]
          /\ workspaces' = [workspaces EXCEPT ![d] = [NoDir EXCEPT !.exists = TRUE]]
          /\ pc' = [pc EXCEPT ![r] = "clone"]
          /\ UNCHANGED ret
    /\ UNCHANGED <<request, repoURL, lastCommitShortHash, imageFullName, containerID,
                   port, resp, alloc, held, host, prior, server>>

\* git clone <url> <tempDir>: the clone brings a working tree with or without a
\* Dockerfile, at some revision.
GitClone(r) ==
    /\ pc[r] = "clone"
    /\ \/ /\ Did(r, Step("git clone", String(repoURL[r]), tempDir[r], 0, FALSE))
          /\ Return(r, ErrClone)
       \/ \E df \in BOOLEAN, head \in Revs :
          /\ String(repoURL[r]) # <<>>
          /\ Did(r, Step("git clone", String(repoURL[r]), tempDir[r], 0, TRUE))
          /\ workspaces' = [workspaces EXCEPT ![tempDir[r]] =
                               [exists |-> TRUE, dockerfile |-> df, head |-> head]]
          /\ pc' = [pc EXCEPT ![r] = "stat"]
          /\ UNCHANGED ret
    /\ UNCHANGED <<request, locals, resp, alloc, held, host, prior, server>>

\* The check inverted into os.IsExist, which no error of os.Stat satisfies.
IsExist(ws, dir) == FALSE

\* os.IsNotExist(err) for the error of os.Stat on <tempDir>/Dockerfile.
IsNotExist(ws, dir) == ~ws[dir].dockerfile

\* os.Stat(filepath.Join(tempDir, "Dockerfile"))
StatDockerfile(r) ==
    /\ pc[r] = "stat"
    /\ IF ~IsNotExist(workspaces, tempDir[r])
       THEN /\ Did(r, Step("os.Stat", <<>>, tempDir[r], 0, TRUE))
            /\ pc' = [pc EXCEPT ![r] = "revparse"]
            /\ UNCHANGED <<ret, workspaces>>
       ELSE /\ Did(r, Step("os.Stat", <<>>, tempDir[r], 0, FALSE))
            /\ Return(r, ErrDockerfile)
    /\ UNCHANGED <<request, locals, resp, alloc, held, host, prior, server>>

\* git -C <tempDir> rev-parse --short HEAD
RevParse(r) ==
    /\ pc[r] = "revparse"
    /\ \/ /\ Did(r, Step("git rev-parse", <<>>, tempDir[r], 0, FALSE))
          /\ Return(r, ErrRevParse)
          /\ UNCHANGED lastCommitShortHash
       \/ /\ Did(r, Step("git rev-parse", <<>>, tempDir[r], 0, TRUE))
          /\ lastCommitShortHash' = [lastCommitShortHash EXCEPT ![r] =
                                        TrimSpace(workspaces[tempDir[r]].head \o Newline)]
          /\ pc' = [pc EXCEPT ![r] = "build"]
          /\ UNCHANGED <<ret, workspaces>>
    /\ UNCHANGED <<request, repoURL, tempDir, imageFullName, containerID, port, resp,
                   alloc, held, host, prior, server>>

\* The tag taken from the workspace instead of the revision.
ImageRefPerWorkspace(r) == ImageFullName(ImageName(repoURL[r]), Itoa(tempDir[r]))

\* imageFullName := fmt.Sprintf("%s:%s", imageName, imageTag), with the name from
\* the URL and the tag the short hash of the revision cloned.
ImageRef(r) == ImageFullName(ImageName(repoURL[r]), lastCommitShortHash[r])

\* docker build -t <imageFullName> <tempDir>: the image built from the working
\* tree (the repository cloned, at its revision) is tagged imageFullName.
DockerBuild(r) ==
    LET full == ImageRef(r)
    IN /\ pc[r] = "build"
       /\ imageFullName' = [imageFullName EXCEPT ![r] = full]
       /\ \/ /\ Did(r, Step("docker build", full, tempDir[r], 0, FALSE))
             /\ Return(r, ErrBuild)
             /\ UNCHANGED images
          \/ /\ ValidRepository(Repository(full))
             /\ Did(r, Step("docker build", full, tempDir[r], 0, TRUE))
             /\ images' = images \cup {[ref |-> full, url |-> String(repoURL[r]),
                                        rev |-> workspaces[tempDir[r]].head]}
             /\ pc' = [pc EXCEPT ![r] = "ps"]
             /\ UNCHANGED <<ret, workspaces>>
       /\ UNCHANGED <<request, repoURL, tempDir, lastCommitShortHash, containerID, port,
                      resp, alloc, held, containers, listeners, launched, prior, server>>

\* The reconciliation of the first version of the pipeline: always a fresh port.
AfterProbeAlwaysAllocate(id) == "findport"

\* if containerID != "" { port of the container found, remove it } else { findFreePort }
AfterProbe(id) == IF id # <<>> THEN "port" ELSE "findport"

\* The probe with its error dropped: the empty output stands for "not running".
DockerPsErrorIgnored(r) ==
    LET imageName == ImageName(repoURL[r])
        id == TrimSpace(PsOutput(containers, imageName))
    IN /\ pc[r] = "ps"
       /\ \/ /\ Did(r, Step("docker ps", imageName, 0, 0, FALSE))
             /\ containerID' = [containerID EXCEPT ![r] = <<>>]
             /\ pc' = [pc EXCEPT ![r] = AfterProbe(<<>>)]
          \/ /\ Did(r, Step("docker ps", imageName, 0, 0, TRUE))
             /\ containerID' = [containerID EXCEPT ![r] = id]
             /\ pc' = [pc EXCEPT ![r] = AfterProbe(id)]
       /\ UNCHANGED <<request, repoURL, tempDir, lastCommitShortHash, imageFullName, port,
                      ret, workspaces, resp, alloc, held, host, prior, server>>

\* docker ps -q --filter ancestor=<imageName>; containerID is the whole output,
\* trimmed.
DockerPs(r) ==
    LET imageName == ImageName(repoURL[r])
        id == TrimSpace(PsOutput(containers, imageName))
    IN /\ pc[r] = "ps"
       /\ \/ /\ Did(r, Step("docker ps", imageName, 0, 0, FALSE))
             /\ Return(r, ErrPs)
             /\ UNCHANGED containerID
          \/ /\ Did(r, Step("docker ps", imageName, 0, 0, TRUE))
             /\ containerID' = [containerID EXCEPT ![r] = id]
             /\ pc' = [pc EXCEPT ![r] = AfterProbe(id)]
             /\ UNCHANGED <<ret, workspaces>>
       /\ UNCHANGED <<request, repoURL, tempDir, lastCommitShortHash, imageFullName, port,
                      resp, alloc, held, host, prior, server>>

\* port, err = strconv.Atoi(strings.Split(string(b), ":")[1]) on the trimmed
\* output b of docker port: the port, an error, or an index out of range.
ParsePort(b) ==
    LET parts == Split(TrimSpace(b), ":")
    IN IF Len(parts) < 2 THEN [port |-> 0, err |-> Panic]
       ELSE IF Atoi(parts[2]).err THEN [port |-> 0, err |-> ErrParsePort]
       ELSE [port |-> Atoi(parts[2]).n, err |-> ""]

\* docker port <containerID>, and the parse of its output.
DockerPort(r) ==
    /\ pc[r] = "port"
    /\ \/ /\ Did(r, Step("docker port", containerID[r], 0, 0, FALSE))
          /\ Return(r, ErrPort)
          /\ UNCHANGED port
       \/ \E c \in Named(containers, containerID[r]) :
          LET parsed == ParsePort(PortOutput(c))
          IN /\ Did(r, Step("docker port", containerID[r], 0, 0, TRUE))
             /\ IF parsed.err # ""
                THEN Return(r, parsed.err) /\ UNCHANGED port
                ELSE /\ port' = [port EXCEPT ![r] = parsed.port]
                     /\ pc' = [pc EXCEPT ![r] = "rm"]
                     /\ UNCHANGED <<ret, workspaces>>
    /\ UNCHANGED <<request, repoURL, tempDir, lastCommitShortHash, imageFullName,
                   containerID, resp, alloc, held, host, prior, server>>

\* The removal with its error dropped.
DockerRmErrorIgnored(r) ==
    /\ pc[r] = "rm"
    /\ \/ /\ Did(r, Step("docker rm", containerID[r], 0, 0, FALSE))
          /\ UNCHANGED containers
       \/ /\ Named(containers, containerID[r]) # {}
          /\ Did(r, Step("docker rm", containerID[r], 0, 0, TRUE))
          /\ containers' = containers \ Named(containers, containerID[r])
    /\ pc' = [pc EXCEPT ![r] = "run"]
    /\ UNCHANGED <<request, locals, ret, workspaces, resp, alloc, held, images, listeners,
                   launched, prior, server>>

\* docker rm -f <containerID>
DockerRm(r) ==
    /\ pc[r] = "rm"
    /\ \/ /\ Did(r, Step("docker rm", containerID[r], 0, 0, FALSE))
          /\ Return(r, ErrRm)
          /\ UNCHANGED containers
       \/ /\ Named(containers, containerID[r]) # {}
          /\ Did(r, Step("docker rm", containerID[r], 0, 0, TRUE))
          /\ containers' = containers \ Named(containers, containerID[r])
          /\ pc' = [pc EXCEPT ![r] = "run"]
          /\ UNCHANGED <<ret, workspaces>>
    /\ UNCHANGED <<request, locals, resp, alloc, held, images, listeners, launched, prior, server>>

\* port, err = findFreePort()
FindFreePort(r) ==
    LET res == findFreePort(Bound)
    IN /\ pc[r] = "findport"
       /\ alloc' = [alloc EXCEPT ![r] = [bound |-> Bound, port |-> res.port, err |-> res.err]]
       /\ held' = held \cup res.open
       /\ Did(r, Step("findFreePort", <<>>, 0, res.port, res.err = ""))
       /\ IF res.err # ""
          THEN Return(r, ErrFreePort) /\ UNCHANGED port
          ELSE /\ port' = [port EXCEPT ![r] = res.port]
               /\ pc' = [pc EXCEPT ![r] = "run"]
               /\ UNCHANGED <<ret, workspaces>>
       /\ UNCHANGED <<request, repoURL, tempDir, lastCommitShortHash, imageFullName,
                      containerID, resp, host, prior, server>>

\* docker run -d -p <port>:80 <imageFullName>: the new container binds the host
\* port on IPv4, or on IPv4 and IPv6.
DockerRun(r) ==
    /\ pc[r] = "run"
    /\ \/ /\ Did(r, Step("docker run", imageFullName[r], 0, port[r], FALSE))
          /\ Return(r, ErrRun)
          /\ UNCHANGED <<containers, launched>>
       \/ \E ips \in {<<V4>>, <<V4, V6>>} :
          /\ port[r] \notin Bound
          /\ launched < MaxLaunches
          /\ Did(r, Step("docker run", imageFullName[r], 0, port[r], TRUE))
          /\ containers' = containers \cup
                 {[id |-> FirstLaunchId + launched, image |-> imageFullName[r],
                   ips |-> ips, hport |-> port[r]]}
          /\ launched' = launched + 1
          /\ Return(r, "")
    /\ UNCHANGED <<request, locals, resp, alloc, held, images, listeners, prior, server>>

\* handleDeploy after CloneAndBuild returned: 500 for an error, 200 for nil.  A
\* panic unwinds handleDeploy; net/http recovers it and writes no response.
Respond(r) ==
    /\ pc[r] = "returned"
    /\ resp' = [resp EXCEPT ![r] =
                   IF ret[r] = Panic THEN <<>>
                   ELSE IF ret[r] # ""
                        THEN <<Reply(StatusInternalServerError, MsgInternalError)>>
                   ELSE <<Reply(StatusOK, MsgProcessed)>>]
    /\ pc' = [pc EXCEPT ![r] = "done"]
    /\ UNCHANGED <<request, locals, ret, cmds, alloc, workspaces, held, host, prior, server>>

Next ==
    \E r \in Requests :
        \/ HandleDeploy(r)
        \/ MkdirTemp(r)
        \/ GitClone(r)
        \/ StatDockerfile(r)
        \/ RevParse(r)
        \/ DockerBuild(r)
        \/ DockerPs(r)
        \/ DockerPort(r)
        \/ DockerRm(r)
        \/ FindFreePort(r)
        \/ DockerRun(r)
        \/ Respond(r)

Spec == Init /\ [][Next]_vars

\* The runtime as a project's first deploy finds it: no container of project A.
InitFresh == Init /\ {c \in containers : Repository(c.image) = NameA} = {}

\* <-osCh: SIGTERM or SIGINT arrives and main calls server.Shutdown, which closes
\* the listener: no request is accepted from here on.
Signal ==
    /\ server = "serving"
    /\ server' = "shutdown"
    /\ UNCHANGED <<pc, request, locals, ret, resp, cmds, alloc, workspaces, held, host, prior>>

\* server.Shutdown(context.Background()) returns once no handler is running; its
\* context has no deadline. main logs "Server stopped" and returns.
Shutdown ==
    /\ server = "shutdown"
    /\ \A r \in Requests : Idle(r)
    /\ server' = "stopped"
    /\ UNCHANGED <<pc, request, locals, ret, resp, cmds, alloc, workspaces, held, host, prior>>

NextShutdown == Next \/ Signal \/ Shutdown

\* What goes on by itself: main's return from Shutdown and the handler's own
\* code. git and docker are processes the handler waits for (CombinedOutput,
\* no deadline): nothing makes them end.
Fairness ==
    /\ WF_vars(Shutdown)
    /\ \A r \in Requests :
           WF_vars(MkdirTemp(r)) /\ WF_vars(StatDockerfile(r)) /\ WF_vars(FindFreePort(r))
           /\ WF_vars(Respond(r))

\* The server with its termination signal, requests served one at a time.
SpecShutdown == InitFresh /\ [][NextShutdown]_vars /\ Fairness

\* net/http serves each connection in a goroutine of its own: a request is
\* accepted whatever the other handlers are doing. Two requests are followed,
\* each served once, in the order of arrival.
TwoRuns == {1, 2}

HandleDeployOverlapping(r) ==
    /\ server = "serving"
    /\ r \in TwoRuns
    /\ pc[r] = "idle"
    /\ \A q \in Requests : q < r => pc[q] # "idle"
    /\ \E body \in Bodies : Accept(r, body)

NextOverlapping ==
    \E r \in Requests :
        \/ HandleDeployOverlapping(r)
        \/ MkdirTemp(r)
        \/ GitClone(r)
        \/ StatDockerfile(r)
        \/ RevParse(r)
        \/ DockerBuild(r)
        \/ DockerPs(r)
        \/ DockerPort(r)
        \/ DockerRm(r)
        \/ FindFreePort(r)
        \/ DockerRun(r)
        \/ Respond(r)

\* Two requests whose handlers run at the same time, their steps interleaved,
\* for a project that has no running instance at first.
SpecOverlapping == InitFresh /\ [][NextOverlapping]_vars

\* Non-overlapping deploys of a project that has no running instance at first.
SpecFresh == InitFresh /\ [][Next]_vars

\* ================================================================ claims

\* The containers of a set started from an image of the given name.
OfName(cs, name) == {c \in cs : Repository(c.image) = name}

\* The external processes CloneAndBuild starts.
ExternalOps == {"git clone", "git rev-parse", "docker build", "docker ps",
                "docker port", "docker rm", "docker run"}

\* The positions of a request's trace where the operation was op.
StepsOf(r, op) == {i \in 1..Len(cmds[r]) : cmds[r][i].op = op}

\* CloneAndBuild is running for the request.
InPipeline(r) == pc[r] \in {"clone", "stat", "revparse", "build", "ps", "port", "rm",
                            "findport", "run"}

\* CloneAndBuild has returned nil for the request.
Succeeded(r) == pc[r] \in {"returned", "done"} /\ ret[r] = "" /\ cmds[r] # <<>>

\* C1: when a container of the project's image name ran, bound to host port P, as
\* the request arrived, a deploy that returns nil leaves exactly one running
\* container of that name, bound to P, and the earlier container's identifier is
\* no longer running.
C1_ReplacesOnSamePort ==
    \A r \in Requests :
        LET name == ImageName(repoURL[r])
            old == OfName(prior[r], name)
            now == OfName(containers, name)
        IN (Succeeded(r) /\ old # {}) =>
               /\ Cardinality(now) = 1
               /\ \A c \in now : \E o \in old :
                      c.ips # <<>> /\ o.ips # <<>> /\ c.hport = o.hport
               /\ \A o \in old : \A c \in containers : c.id # o.id

C1_Witness ==
    \E r \in Requests :
        /\ Succeeded(r)
        /\ OfName(prior[r], ImageName(repoURL[r])) # {}
        /\ StepsOf(r, "docker rm") # {}

\* C2: whenever CloneAndBuild is not running for a request, on whichever path it
\* returned, the workspace it created does not exist: every scratch directory
\* that exists belongs to a run still inside CloneAndBuild.
C2_WorkspaceReleased ==
    /\ \A d \in Dirs : workspaces[d].exists =>
           \E r \in Requests : InPipeline(r) /\ tempDir[r] = d
    /\ \A r \in Requests : (pc[r] \in {"returned", "done"} /\ tempDir[r] # 0) =>
           ~workspaces[tempDir[r]].exists

C2_Witness ==
    \E r \in Requests :
        /\ pc[r] = "returned"
        /\ ret[r] = ErrBuild
        /\ tempDir[r] # 0
        /\ StepsOf(r, "os.MkdirTemp") # {}

\* C3: a failed step is the last step of its run: no step follows a failed one,
\* so no build follows a failed clone and no port query, removal, allocation or
\* launch follows a failed probe; the run has returned an error.
C3_FailureShortCircuits ==
    \A r \in Requests :
        /\ \A i \in 1..Len(cmds[r]) : ~cmds[r][i].ok =>
               /\ i = Len(cmds[r])
               /\ pc[r] \in {"returned", "done"}
               /\ ret[r] # ""
        /\ (\E i \in StepsOf(r, "git clone") : ~cmds[r][i].ok) =>
               StepsOf(r, "docker build") = {}
        /\ (\E i \in StepsOf(r, "docker ps") : ~cmds[r][i].ok) =>
               /\ StepsOf(r, "docker port") = {}
               /\ StepsOf(r, "docker rm") = {}
               /\ StepsOf(r, "findFreePort") = {}
               /\ StepsOf(r, "docker run") = {}

C3_Witness ==
    \E r \in Requests :
        /\ pc[r] = "returned"
        /\ ret[r] = ErrPs
        /\ \E i \in StepsOf(r, "docker ps") : ~cmds[r][i].ok
        /\ OfName(containers, ImageName(repoURL[r])) # {}

\* C4: a run whose cloned working tree has no Dockerfile returns the "dockerfile
\* not found" error, which no other failure returns, and starts no build: docker
\* build is only ever started on a working tree that has a Dockerfile.
C4_NoDockerfileNoBuild ==
    \A r \in Requests :
        /\ (InPipeline(r) /\ StepsOf(r, "docker build") # {}) =>
               workspaces[tempDir[r]].dockerfile
        /\ (InPipeline(r) /\ pc[r] \notin {"clone", "stat"}) =>
               workspaces[tempDir[r]].dockerfile
        /\ (\E i \in StepsOf(r, "os.Stat") : ~cmds[r][i].ok) =>
               /\ ret[r] = ErrDockerfile
               /\ StepsOf(r, "docker build") = {}
        /\ ret[r] = ErrDockerfile =>
               /\ cmds[r][Len(cmds[r])] = Step("os.Stat", <<>>, tempDir[r], 0, FALSE)
               /\ \A i \in 1..Len(cmds[r]) : cmds[r][i].op \in ExternalOps =>
                      cmds[r][i].op = "git clone"
        /\ ErrDockerfile \notin {ErrTempDir, ErrClone, ErrRevParse, ErrBuild, ErrPs,
                                 ErrPort, ErrParsePort, ErrRm, ErrFreePort, ErrRun}

C4_Witness ==
    \E r \in Requests :
        /\ pc[r] = "returned"
        /\ ret[r] = ErrDockerfile
        /\ \E i \in StepsOf(r, "git clone") : cmds[r][i].ok

\* Whether text sub occurs in text s.
Contains(s, sub) == \E i \in 1..(Len(s) - Len(sub) + 1) : SubSeq(s, i, i + Len(sub) - 1) = sub

\* The least port from BasePort on that is not in the set, if the range has one.
IsLowestFree(p, bound) == p \in PortRange \ bound /\ \A q \in BasePort..(p - 1) : q \in bound

\* C5 (as claimed): a request whose "url" is no URL ({"url": "not a url"}, a host
\* with a space in it, a URL that starts with a colon) gets a 400-class response
\* and starts no external process.
C5_InvalidUrlRejected ==
    \A r \in Requests :
        (pc[r] # "idle" /\ request[r] \in {Body(UrlNotAUrl), Body(UrlBadHost), Body(UrlNoScheme)}) =>
            /\ \A i \in 1..Len(cmds[r]) : cmds[r][i].op \notin ExternalOps
            /\ pc[r] = "done" =>
                   /\ Len(resp[r]) = 1
                   /\ resp[r][1].status \in 400..499

\* C6 (as claimed): every served request has exactly one response: 400 for a body
\* that does not decode or a URL that does not parse, 200 with the confirmation
\* body when CloneAndBuild returned nil, 500 in every other case.
C6_StatusIsTotal ==
    \A r \in Requests :
        pc[r] = "done" =>
            /\ Len(resp[r]) = 1
            /\ LET rejected == Decode(request[r]).err \/ Parse(Decode(request[r]).URL).err
               IN resp[r][1] =
                      IF rejected THEN Reply(StatusBadRequest, resp[r][1].body)
                      ELSE IF ret[r] = "" THEN Reply(StatusOK, MsgProcessed)
                      ELSE Reply(StatusInternalServerError, resp[r][1].body)

\* A deploy that returned nil and found no container of the project's image name
\* running when it probed.
FreshDeploy(r) ==
    /\ pc[r] = "done"
    /\ Succeeded(r)
    /\ OfName(prior[r], ImageName(repoURL[r])) = {}

\* The deploy launched its container on the lowest port from 3000 on that nothing
\* had bound.
LaunchedOnLowestFree(r) ==
    /\ IsLowestFree(port[r], listeners \cup ContainerPorts(prior[r]))
    /\ \E c \in containers \ prior[r] :
           c.image = imageFullName[r] /\ c.ips # <<>> /\ c.hport = port[r]
    /\ cmds[r][Len(cmds[r])] = Step("docker run", imageFullName[r], 0, port[r], TRUE)

C8_FindFreePort ==
    /\ held = {}
    /\ \A r \in Requests :
           StepsOf(r, "findFreePort") # {} =>
               /\ alloc[r].err \in {"", NoFreePorts}
               /\ alloc[r].err = "" => IsLowestFree(alloc[r].port, alloc[r].bound)
               /\ alloc[r].err = "" => alloc[r].port >= BasePort
               /\ alloc[r].err = NoFreePorts <=> PortRange \subseteq alloc[r].bound
               /\ pc[r] = "run" => alloc[r].bound = Bound /\ port[r] = alloc[r].port

C8_Witness ==
    \E r \in Requests :
        /\ pc[r] = "run"
        /\ StepsOf(r, "findFreePort") # {}
        /\ alloc[r].port = LastPort
        /\ alloc[r].bound = PortRange \ {LastPort}

\* C9: every image is tagged host + path of the URL it was cloned from, a colon,
\* and the short hash of the revision built; two builds of the same URL at the
\* same revision carry the same reference, whatever the workspace, the time and
\* the containers running; and a run launches the reference it built.
C9_ImageRefDeterministic ==
    /\ \A img \in images :
           LET u == Parse(img.url)
           IN img.ref = u.Host \o u.Path \o Colon \o img.rev
    /\ \A i, j \in images : (i.url = j.url /\ i.rev = j.rev) => i.ref = j.ref
    /\ \A r \in Requests :
           /\ \A i \in StepsOf(r, "docker build") :
                  cmds[r][i].str = repoURL[r].Host \o repoURL[r].Path \o Colon
                                   \o lastCommitShortHash[r]
           /\ \A i \in StepsOf(r, "docker build"), j \in StepsOf(r, "docker run") :
                  cmds[r][i].str = cmds[r][j].str

C9_Witness ==
    \E r \in Requests :
        /\ Succeeded(r)
        /\ \E c \in prior[r] : c.id >= FirstLaunchId /\ c.image = imageFullName[r]
        /\ \E d \in containers \ prior[r] : d.image = imageFullName[r]

\* C10 (as claimed): when the probe lists more than one running container, the
\* identifier the run goes on with is the first one listed.
C10_FirstIsCanonical ==
    \A r \in Requests :
        LET name == ImageName(repoURL[r])
        IN (pc[r] = "port" /\ Cardinality(OfName(containers, name)) > 1) =>
               /\ containerID[r] = Split(PsOutput(containers, name), "\n")[1]
               /\ Named(containers, containerID[r]) # {}

\* The place of each step in the pipeline: the port query and the allocation
\* are the two ways of the same stage.
Rank(op) ==
    CASE op = "os.MkdirTemp" -> 1
      [] op = "git clone" -> 2
      [] op = "os.Stat" -> 3
      [] op = "git rev-parse" -> 4
      [] op = "docker build" -> 5
      [] op = "docker ps" -> 6
      [] op = "docker port" -> 7
      [] op = "findFreePort" -> 7
      [] op = "docker rm" -> 8
      [] op = "docker run" -> 9

\* C11: the steps of a run come in the order of the pipeline and none is taken
\* twice: each step of a run's trace is of a later stage than the step before it,
\* a run queries and removes or allocates, never both, and the stage a run stands
\* at is later than every step it has taken.
C11_StrictForwardOrder ==
    \A r \in Requests :
        /\ \A i \in 1..Len(cmds[r]) : \A j \in 1..Len(cmds[r]) :
               i < j => Rank(cmds[r][i].op) < Rank(cmds[r][j].op)
        /\ \A op \in ExternalOps : Cardinality(StepsOf(r, op)) <= 1
        /\ StepsOf(r, "findFreePort") # {} =>
               StepsOf(r, "docker port") = {} /\ StepsOf(r, "docker rm") = {}
        /\ (pc[r] = "build" /\ cmds[r] # <<>>) => cmds[r][Len(cmds[r])].op = "git rev-parse"
        /\ (pc[r] = "run" /\ cmds[r] # <<>>) =>
               cmds[r][Len(cmds[r])].op \in {"docker rm", "findFreePort"}

C11_Witness ==
    \E r \in Requests :
        /\ pc[r] = "returned"
        /\ Len(cmds[r]) = 9
        /\ cmds[r][9].op = "docker run"
        /\ cmds[r][8].op = "docker rm"

\* C12: a run that found a container starts the new one only after docker port
\* gave the port and docker rm removed the container: when docker run is about to
\* start or has been started, both steps are in the trace, in that order and
\* successful, the container found is not running, and a failed port query or
\* removal is followed by no launch.
C12_RemovedBeforeLaunch ==
    \A r \in Requests :
        /\ (containerID[r] # <<>> /\ (pc[r] = "run" \/ StepsOf(r, "docker run") # {})) =>
               /\ \E i \in StepsOf(r, "docker port") : \E j \in StepsOf(r, "docker rm") :
                      i < j /\ cmds[r][i].ok /\ cmds[r][j].ok
                      /\ \A k \in StepsOf(r, "docker run") : j < k
               /\ Named(containers, containerID[r]) = {}
               /\ \A o \in prior[r] : IdText(o.id) = containerID[r] => o \notin containers
        /\ (\E i \in StepsOf(r, "docker port") \cup StepsOf(r, "docker rm") : ~cmds[r][i].ok) =>
               StepsOf(r, "docker run") = {} /\ pc[r] # "run"

C12_Witness ==
    \E r \in Requests :
        /\ pc[r] = "run"
        /\ containerID[r] # <<>>
        /\ \E o \in prior[r] : IdText(o.id) = containerID[r] /\ o.hport = port[r]

\* The request's run has a failed step among ops.
FailedAt(r, ops) == \E i \in 1..Len(cmds[r]) : cmds[r][i].op \in ops /\ ~cmds[r][i].ok

\* C15: every request whose CloneAndBuild did not return nil is answered with the
\* same response, status 500 and the body "Internal server error", whatever the
\* stage and the cause of the failure.
C15_FailureResponseUniform ==
    \A r \in Requests :
        (pc[r] = "done" /\ ret[r] # "") =>
            resp[r] = <<Reply(StatusInternalServerError, MsgInternalError)>>

\* C17: a run with a failed git clone, os.Stat, git rev-parse, docker build or
\* docker ps has started no docker rm and no docker run, has bound no port, and
\* the running containers and their ports are those the request found.
C17_EarlyFailureLeavesRuntime ==
    \A r \in Requests :
        FailedAt(r, {"git clone", "os.Stat", "git rev-parse", "docker build", "docker ps"}) =>
            /\ containers = prior[r]
            /\ StepsOf(r, "docker rm") = {}
            /\ StepsOf(r, "docker run") = {}
            /\ StepsOf(r, "findFreePort") = {}
            /\ held = {}

C17_Witness ==
    \E r \in Requests :
        /\ pc[r] = "done"
        /\ ret[r] = ErrPs
        /\ OfName(prior[r], ImageName(repoURL[r])) # {}
        /\ containers = prior[r]

\* C18: a run whose docker port succeeded goes on to docker rm with the port
\* parsed from the output, or returns "failed to parse container port" and is
\* answered 500; it never ends otherwise.
C18_PortOutputHandled ==
    \A r \in Requests :
        (\E i \in StepsOf(r, "docker port") : cmds[r][i].ok) =>
            /\ ret[r] \in {"", ErrParsePort, ErrRm, ErrRun}
            /\ ret[r] = "" => port[r] \in 1..65535
            /\ (pc[r] = "done" /\ ret[r] # "") =>
                   resp[r] = <<Reply(StatusInternalServerError, MsgInternalError)>>

\* C19: when no container of project A runs at first and the deploys do not
\* overlap, no two running containers are of the same image name, and when
\* docker run has been started on a port, no container that was bound to that
\* port as the request arrived is still running.
C19_AtMostOneInstance ==
    /\ \A c \in containers : \A d \in containers :
           Repository(c.image) = Repository(d.image) => c = d
    /\ \A r \in Requests :
           StepsOf(r, "docker run") # {} =>
               \A o \in prior[r] : port[r] \in ContainerPorts({o}) => o \notin containers

C19_Witness ==
    \E r \in Requests :
        /\ Succeeded(r)
        /\ launched = 2
        /\ \E o \in prior[r] : o.id = FirstLaunchId /\ port[r] \in ContainerPorts({o})
        /\ \E c \in containers : c.id = FirstLaunchId + 1 /\ c.hport = port[r]

\* The run allocated its port: the probe succeeded and named no container.
Allocated(r) ==
    /\ containerID[r] = <<>>
    /\ \E i \in StepsOf(r, "docker ps") : cmds[r][i].ok
    /\ \E i \in StepsOf(r, "findFreePort") : cmds[r][i].ok

\* C13: nothing keeps overlapping runs apart. The port findFreePort gave a run
\* is held by no listener of this program while the run goes on to docker run,
\* so a run that allocates before the container is started is given the same
\* port: of two runs that allocated with the same ports bound, both have the
\* port that is the lowest free one. (That both runs then start docker run for
\* the same image name is the witness.)
C13_NoReservation ==
    /\ held = {}
    /\ \A r \in Requests :
           (pc[r] = "run" /\ Allocated(r)) =>
               /\ port[r] \notin listeners
               /\ (port[r] \notin ContainerPorts(containers)) =>
                      findFreePort(Bound).err = "" /\ findFreePort(Bound).port <= port[r]
    /\ \A r \in Requests : \A q \in Requests :
           (Allocated(r) /\ Allocated(q) /\ alloc[r].bound = alloc[q].bound) =>
               port[r] = port[q]

C13_Witness ==
    \E r \in Requests : \E q \in Requests :
        /\ r # q
        /\ Allocated(r) /\ Allocated(q)
        /\ ImageName(repoURL[r]) = ImageName(repoURL[q])
        /\ port[r] = port[q]
        /\ StepsOf(r, "docker run") # {} /\ StepsOf(q, "docker run") # {}
        /\ OfName(prior[r], ImageName(repoURL[r])) = {}
        /\ OfName(prior[q], ImageName(repoURL[q])) = {}

\* C14: whatever the interleaving, a run between os.MkdirTemp and its return has
\* a workspace that exists and that no other such run has, and every step it took
\* in a directory took it in that workspace: no run's cleanup removed it.
C14_WorkspacePerRun ==
    \A r \in Requests :
        InPipeline(r) =>
            /\ tempDir[r] \in Dirs
            /\ workspaces[tempDir[r]].exists
            /\ \A q \in Requests \ {r} : InPipeline(q) => tempDir[q] # tempDir[r]
            /\ \A i \in 1..Len(cmds[r]) : cmds[r][i].dir \in {0, tempDir[r]}

C14_Witness ==
    \E r \in Requests : \E q \in Requests :
        /\ pc[r] = "returned" /\ tempDir[r] \in Dirs /\ ~workspaces[tempDir[r]].exists
        /\ InPipeline(q) /\ workspaces[tempDir[q]].exists
        /\ Allocated(r) /\ Allocated(q) /\ alloc[r].bound = alloc[q].bound

\* C16: once the termination signal has arrived the server stops: Shutdown
\* returns and main ends, whatever a handler is waiting for.
C16_ShutdownCompletes == (server = "shutdown") ~> (server = "stopped")

====
